---- MODULE Spec2Model ----
(***************************************************************************)
(* A model of russet's Tokeniser (src/src/tokeniser.rs): the per-character *)
(* state machine add_char, the line drivers add_iterator / add_line, the   *)
(* finaliser into_strings, and the stock configurations of                 *)
(* src/src/builders.rs and src/src/lib.rs.                                 *)
(*                                                                         *)
(* A char is modelled by a short name: "sp" is ' ', "nl" is '\n', "dq" is  *)
(* '"', "sq" is '\'', "bs" is '\\', "cr" is '\r', "tab" is '\t'; "a", "n", *)
(* "r", "t" are the letters.  A String is a sequence of chars.             *)
(***************************************************************************)
EXTENDS Integers, Sequences, FiniteSets, TLC

VARIABLES cfg, tok, log, result

vars == <<cfg, tok, log, result>>

(* Bound: the number of characters a behaviour feeds to one tokeniser. *)
MaxLen == 4

(* The characters the model feeds to the tokeniser. *)
Alphabet == {"a", "n", "sp", "nl", "dq", "sq", "bs"}

(* Every character that can occur in a word: the alphabet and the          *)
(* substitutes of the escape tables.                                       *)
AllChars == Alphabet \cup {"r", "t", "cr", "tab"}

(* ------------------------------------------------------------------ *)
(* Option, Result, maps                                                *)
(* ------------------------------------------------------------------ *)

None == <<>>

Some(x) == <<x>>

is_some(o) == o # None

(* The value a failed unwrap() stands for: the thread panics. *)
Panic == "panic"

unwrap(o) == IF o = None THEN Panic ELSE o[1]

is_empty(m) == DOMAIN m = {}

contains_key(m, k) == k \in DOMAIN m

find(m, k) == IF k \in DOMAIN m THEN Some(m[k]) ELSE None

Ok(v) == [kind |-> "Ok", words |-> v, error |-> "none"]

Err(e) == [kind |-> "Err", words |-> <<>>, error |-> e]

(* No Result yet: into_strings has not been called. *)
NoResult == [kind |-> "none", words |-> <<>>, error |-> "none"]

(* ------------------------------------------------------------------ *)
(* std: char::is_whitespace, str::trim, str::words                     *)
(* ------------------------------------------------------------------ *)

is_whitespace(c) == c \in {"sp", "nl", "cr", "tab"}

Front(s) == SubSeq(s, 1, Len(s) - 1)

Last(s) == s[Len(s)]

RECURSIVE trim_left(_)
trim_left(s) ==
    IF s # <<>> /\ is_whitespace(Head(s)) THEN trim_left(Tail(s)) ELSE s

RECURSIVE trim_right(_)
trim_right(s) ==
    IF s # <<>> /\ is_whitespace(Last(s)) THEN trim_right(Front(s)) ELSE s

trim(s) == trim_right(trim_left(s))

(* The end of the maximal run of non-whitespace that starts at index i. *)
RECURSIVE run_end(_, _)
run_end(s, i) ==
    IF i < Len(s) /\ ~is_whitespace(s[i + 1]) THEN run_end(s, i + 1) ELSE i

(* str::words: the maximal runs of non-whitespace of s from index i on. *)
RECURSIVE words_from(_, _)
words_from(s, i) ==
    IF i > Len(s) THEN <<>>
    ELSE IF is_whitespace(s[i]) THEN words_from(s, i + 1)
    ELSE LET j == run_end(s, i)
         IN  <<SubSeq(s, i, j)>> \o words_from(s, j + 1)

words(s) == words_from(s, 1)

(* ------------------------------------------------------------------ *)
(* Tokeniser                                                           *)
(* ------------------------------------------------------------------ *)

QuoteMode == {"IgnoreEscapes", "ParseEscapes"}

Error == {"UnmatchedQuote", "UnfinishedEscape"}

(* Bug: the vector starts without its accumulator string. *)
new_without_accumulator(quote_pairs, escape_pairs, escape_leader) ==
    [ vec           |-> <<>>,
      in_word       |-> FALSE,
      quote         |-> None,
      escaping      |-> FALSE,
      quote_pairs   |-> quote_pairs,
      escape_pairs  |-> escape_pairs,
      escape_leader |-> escape_leader ]

new(quote_pairs, escape_pairs, escape_leader) ==
    [ vec           |-> << <<>> >>,
      in_word       |-> FALSE,
      quote         |-> None,
      escaping      |-> FALSE,
      quote_pairs   |-> quote_pairs,
      escape_pairs  |-> escape_pairs,
      escape_leader |-> escape_leader ]

(* Bug: the character replaces the accumulator. *)
emit_overwriting(self, c) ==
    [self EXCEPT !.in_word = TRUE,
                 !.escaping = FALSE,
                 !.vec = IF self.vec = <<>> THEN self.vec
                         ELSE [self.vec EXCEPT ![Len(self.vec)] = <<c>>]]

emit(self, c) ==
    [self EXCEPT !.in_word = TRUE,
                 !.escaping = FALSE,
                 !.vec = IF self.vec = <<>> THEN self.vec
                         ELSE [self.vec EXCEPT ![Len(self.vec)] = Append(@, c)]]

start_escaping(self) ==
    [self EXCEPT !.escaping = TRUE, !.in_word = TRUE]

(* Bug: the current string is dropped whether or not it is empty. *)
drop_current_string_always(self) ==
    IF self.vec # <<>> THEN [self EXCEPT !.vec = Front(self.vec)] ELSE self

drop_empty_current_string(self) ==
    IF self.vec # <<>> /\ Last(self.vec) = <<>>
    THEN [self EXCEPT !.vec = Front(self.vec)]
    ELSE self

(* The patterns and guards of the arms of add_char's match, in order. *)

shell_style_escape(self, c) ==
    self.escaping /\ is_empty(self.escape_pairs)

(* Bug: the guard does not ask whether the table knows the character. *)
known_escape_unguarded(self, e) ==
    self.escaping

known_escape(self, e) ==
    self.escaping /\ contains_key(self.escape_pairs, e)

(* Bug: a leader that is also a quote opener is left to quote opening. *)
escape_leader_unquoted_unless_opener(self, c) ==
    /\ ~self.escaping
    /\ self.quote = None
    /\ is_some(self.escape_leader)
    /\ self.escape_leader[1] = c
    /\ ~contains_key(self.quote_pairs, c)

(* Bug: the pattern does not ask for escaping: false. *)
escape_leader_while_escaping(self, c) ==
    /\ self.quote = None
    /\ is_some(self.escape_leader)
    /\ self.escape_leader[1] = c

escape_leader_unquoted(self, c) ==
    /\ ~self.escaping
    /\ self.quote = None
    /\ is_some(self.escape_leader)
    /\ self.escape_leader[1] = c

(* Bug: the pattern does not ask for the ParseEscapes mode. *)
escape_leader_in_any_quotes(self, c) ==
    /\ ~self.escaping
    /\ is_some(self.quote)
    /\ is_some(self.escape_leader)
    /\ self.escape_leader[1] = c

escape_leader_in_quotes(self, c) ==
    /\ ~self.escaping
    /\ is_some(self.quote)
    /\ self.quote[1][2] = "ParseEscapes"
    /\ is_some(self.escape_leader)
    /\ self.escape_leader[1] = c

(* Bug: a quotation is opened only where no word has been started. *)
quote_opening_between_words(self, q) ==
    /\ ~self.escaping
    /\ ~self.in_word
    /\ self.quote = None
    /\ contains_key(self.quote_pairs, q)

(* Bug: an opener is recognised inside an open quotation. *)
quote_opening_nested(self, q) ==
    /\ ~self.escaping
    /\ contains_key(self.quote_pairs, q)
    /\ is_some(self.quote) => q # self.quote[1][1]

quote_opening(self, q) ==
    /\ ~self.escaping
    /\ self.quote = None
    /\ contains_key(self.quote_pairs, q)

(* Bug: a quotation that parses escapes is never closed. *)
quote_closing_ignore_escapes_only(self, c) ==
    /\ ~self.escaping
    /\ is_some(self.quote)
    /\ self.quote[1][2] = "IgnoreEscapes"
    /\ c = self.quote[1][1]

quote_closing(self, c) ==
    /\ ~self.escaping
    /\ is_some(self.quote)
    /\ c = self.quote[1][1]

(* Bug: only the space counts as whitespace between words. *)
whitespace_not_in_word_space_only(self, a) ==
    /\ ~self.escaping
    /\ ~self.in_word
    /\ a = "sp"

whitespace_not_in_word(self, a) ==
    /\ ~self.escaping
    /\ ~self.in_word
    /\ is_whitespace(a)

(* Bug: the pattern does not ask for quote: None. *)
whitespace_end_word_in_quotes(self, a) ==
    /\ ~self.escaping
    /\ self.in_word
    /\ is_whitespace(a)

whitespace_end_word(self, a) ==
    /\ ~self.escaping
    /\ self.in_word
    /\ self.quote = None
    /\ is_whitespace(a)

(* The bodies of the arms that are not a single method call. *)

(* Bug: the escaped character is emitted, not its substitute. *)
escape_character_unsubstituted(self, e) ==
    emit(self, e)

escape_character(self, e) ==
    emit(self, unwrap(find(self.escape_pairs, e)))

(* Bug: opening a quotation does not start a word. *)
start_quoting_without_word(self, q) ==
    [self EXCEPT !.quote = Some(unwrap(find(self.quote_pairs, q)))]

start_quoting(self, q) ==
    [self EXCEPT !.quote = Some(unwrap(find(self.quote_pairs, q))),
                 !.in_word = TRUE]

(* Bug: closing the quotation leaves the word. *)
stop_quoting_leaves_word(self) ==
    [self EXCEPT !.quote = None, !.in_word = FALSE]

stop_quoting(self) ==
    [self EXCEPT !.quote = None, !.in_word = TRUE]

(* Bug: the word is ended without pushing a new accumulator. *)
end_word_without_push(self) ==
    [self EXCEPT !.in_word = FALSE]

end_word(self) ==
    [self EXCEPT !.in_word = FALSE, !.vec = Append(self.vec, <<>>)]

(* The first arm matches: arms are tried from top to bottom. *)
add_char(self, chr) ==
    IF shell_style_escape(self, chr) THEN emit(self, chr)
    ELSE IF known_escape(self, chr) THEN escape_character(self, chr)
    ELSE IF escape_leader_unquoted(self, chr) THEN start_escaping(self)
    ELSE IF escape_leader_in_quotes(self, chr) THEN start_escaping(self)
    ELSE IF quote_opening(self, chr) THEN start_quoting(self, chr)
    ELSE IF quote_closing(self, chr) THEN stop_quoting(self)
    ELSE IF whitespace_not_in_word(self, chr) THEN self
    ELSE IF whitespace_end_word(self, chr) THEN end_word(self)
    ELSE emit(self, chr)

RECURSIVE add_iterator(_, _)
add_iterator(self, it) ==
    IF it = <<>> THEN self
    ELSE add_iterator(add_char(self, Head(it)), Tail(it))

(* Bug: the line is not trimmed. *)
add_line_untrimmed(self, line) == add_iterator(self, line)

add_line(self, line) == add_iterator(self, trim(line))

(* Bug: the pending escape is tested before the open quote. *)
into_strings_escape_first(self) ==
    IF self.escaping THEN Err("UnfinishedEscape")
    ELSE IF self.in_word /\ is_some(self.quote) THEN Err("UnmatchedQuote")
    ELSE Ok(drop_empty_current_string(self).vec)

(* Bug: a pending escape is not tested at all. *)
into_strings_without_escape_test(self) ==
    IF self.in_word /\ is_some(self.quote) THEN Err("UnmatchedQuote")
    ELSE Ok(drop_empty_current_string(self).vec)

(* Bug: an open quote is reported as an unfinished escape. *)
into_strings_one_error(self) ==
    IF self.in_word /\ is_some(self.quote) THEN Err("UnfinishedEscape")
    ELSE IF self.escaping THEN Err("UnfinishedEscape")
    ELSE Ok(drop_empty_current_string(self).vec)

into_strings(self) ==
    IF self.in_word /\ is_some(self.quote) THEN Err("UnmatchedQuote")
    ELSE IF self.escaping THEN Err("UnfinishedEscape")
    ELSE Ok(drop_empty_current_string(self).vec)

(* ------------------------------------------------------------------ *)
(* Configurations: the arguments of Tokeniser::new                     *)
(* ------------------------------------------------------------------ *)

Config(quote_pairs, escape_pairs, escape_leader) ==
    [ quote_pairs   |-> quote_pairs,
      escape_pairs  |-> escape_pairs,
      escape_leader |-> escape_leader ]

EmptyMap == <<>>

whitespace_split_tokeniser == Config(EmptyMap, EmptyMap, None)

shell_style_tokeniser ==
    Config(("dq" :> <<"dq", "ParseEscapes">>) @@ ("sq" :> <<"sq", "IgnoreEscapes">>),
           EmptyMap,
           Some("bs"))

(* Bug: the table has no entry for t. *)
c_style_tokeniser_without_tab ==
    Config("dq" :> <<"dq", "ParseEscapes">>,
           ("n" :> "nl") @@ ("r" :> "cr") @@ ("dq" :> "dq") @@ ("sq" :> "sq"),
           Some("bs"))

c_style_tokeniser ==
    Config("dq" :> <<"dq", "ParseEscapes">>,
           ("n" :> "nl") @@ ("r" :> "cr") @@ ("dq" :> "dq") @@ ("sq" :> "sq")
               @@ ("t" :> "tab"),
           Some("bs"))

unpack ==
    Config(("dq" :> <<"dq", "ParseEscapes">>) @@ ("sq" :> <<"sq", "ParseEscapes">>),
           "n" :> "nl",
           Some("bs"))

(* Configurations a caller can build that no stock builder does: the      *)
(* escape leader is whitespace; an opener is whitespace and whitespace is  *)
(* a known escape; the closer of one pair is the opener of another; the    *)
(* leader closes an IgnoreEscapes quotation; tables with no leader; the    *)
(* leader is also a quote opener; the closer and the leader of a           *)
(* ParseEscapes quotation are whitespace; the leader is the opener of a    *)
(* second pair and a key of the escape table; the leader closes a          *)
(* ParseEscapes quotation.                                                 *)
CustomConfigs ==
    { Config(EmptyMap, EmptyMap, Some("sp")),
      Config("nl" :> <<"sq", "ParseEscapes">>,
             ("n" :> "nl") @@ ("sp" :> "a"),
             Some("bs")),
      Config(("dq" :> <<"sq", "IgnoreEscapes">>) @@ ("sq" :> <<"dq", "ParseEscapes">>),
             EmptyMap,
             Some("bs")),
      Config("sq" :> <<"bs", "IgnoreEscapes">>, "n" :> "nl", Some("bs")),
      Config("dq" :> <<"dq", "ParseEscapes">>, "n" :> "nl", None),
      Config("dq" :> <<"dq", "ParseEscapes">>, EmptyMap, Some("dq")),
      Config("dq" :> <<"sp", "ParseEscapes">>, EmptyMap, Some("nl")),
      Config(("dq" :> <<"dq", "ParseEscapes">>) @@ ("sq" :> <<"sq", "IgnoreEscapes">>),
             "sq" :> "a",
             Some("sq")),
      Config("sq" :> <<"bs", "ParseEscapes">>, EmptyMap, Some("bs")) }

StockConfigs ==
    { whitespace_split_tokeniser, shell_style_tokeniser, c_style_tokeniser, unpack }

Configs == StockConfigs \cup CustomConfigs

(* ------------------------------------------------------------------ *)
(* EscapeScheme (src/src/escape_scheme.rs)                             *)
(* ------------------------------------------------------------------ *)

LiteralEscape == [tag |-> "LiteralEscape", map |-> EmptyMap]

MapEscape(m) == [tag |-> "MapEscape", map |-> m]

c_escapes ==
    MapEscape(("n" :> "nl") @@ ("r" :> "cr") @@ ("dq" :> "dq") @@ ("sq" :> "sq")
                  @@ ("bs" :> "bs") @@ ("t" :> "tab"))

(* Bug: a character the map lacks is taken as its literal value. *)
escape_miss_is_literal(self, chr) ==
    IF self.tag = "LiteralEscape" THEN Some(chr)
    ELSE IF chr \in DOMAIN self.map THEN Some(self.map[chr]) ELSE Some(chr)

escape(self, chr) ==
    IF self.tag = "LiteralEscape" THEN Some(chr)
    ELSE find(self.map, chr)

(* The schemes escape is called on: the two stock ones, the one-entry map  *)
(* of the Tokeniser::new example, and an empty map.                        *)
Schemes == { LiteralEscape, c_escapes, MapEscape("n" :> "nl"), MapEscape(EmptyMap) }

(* ------------------------------------------------------------------ *)
(* The state machine                                                   *)
(*   cfg    the arguments Tokeniser::new was called with               *)
(*   tok    the Tokeniser value the session holds (after into_strings: *)
(*          the value into_strings consumed)                           *)
(*   log    the calls made so far, in order                            *)
(*   result the Result of into_strings, NoResult before the call       *)
(* ------------------------------------------------------------------ *)

Call(op, arg) == [op |-> op, arg |-> arg]

(* Characters passed so far, plus one per add_line call. *)
RECURSIVE Cost(_)
Cost(l) ==
    IF l = <<>> THEN 0
    ELSE Cost(Front(l))
         + (IF Last(l).op = "add_line" THEN 1 + Len(Last(l).arg)
            ELSE IF Last(l).op = "add_iterator" THEN 1 + Len(Last(l).arg)
            ELSE IF Last(l).op = "add_char" THEN 1 ELSE 0)

(* The strings of at most n characters of the alphabet. *)
Strings(n) == UNION { [1..k -> Alphabet] : k \in 0..n }

Init ==
    /\ cfg \in Configs
    /\ tok = new(cfg.quote_pairs, cfg.escape_pairs, cfg.escape_leader)
    /\ log = <<>>
    /\ result = NoResult

AddChar(chr) ==
    /\ result = NoResult
    /\ Cost(log) < MaxLen
    /\ tok' = add_char(tok, chr)
    /\ log' = Append(log, Call("add_char", <<chr>>))
    /\ UNCHANGED <<cfg, result>>

AddLine(line) ==
    /\ result = NoResult
    /\ Cost(log) + Len(line) <= MaxLen
    /\ tok' = add_line(tok, line)
    /\ log' = Append(log, Call("add_line", line))
    /\ UNCHANGED <<cfg, result>>

IntoStrings ==
    /\ result = NoResult
    /\ result' = into_strings(tok)
    /\ log' = Append(log, Call("into_strings", <<>>))
    /\ UNCHANGED <<cfg, tok>>

Next ==
    \/ \E chr \in Alphabet : AddChar(chr)
    \/ IntoStrings

Spec == Init /\ [][Next]_vars

(* LineTokeniser::line and the tests of lib.rs: a fresh tokeniser is fed   *)
(* one line and finalised.                                                *)
LineNext ==
    \/ log = <<>> /\ \E line \in Strings(MaxLen) : AddLine(line)
    \/ IntoStrings

LineSpec == Init /\ [][LineNext]_vars

(* The shell-style and C-style tokenisers, fed the characters their       *)
(* escape sequences are made of.                                           *)
EscapeAlphabet == {"a", "n", "r", "t", "dq", "sq", "bs", "sp"}

StockInit ==
    /\ cfg \in {shell_style_tokeniser, c_style_tokeniser}
    /\ tok = new(cfg.quote_pairs, cfg.escape_pairs, cfg.escape_leader)
    /\ log = <<>>
    /\ result = NoResult

StockNext ==
    \/ \E chr \in EscapeAlphabet : AddChar(chr)
    \/ IntoStrings

StockSpec == StockInit /\ [][StockNext]_vars

(* A session of add_iterator and add_line calls on one tokeniser of a      *)
(* stock configuration, then into_strings.                                 *)
DriveAlphabet == {"a", "sp", "nl", "dq", "bs"}

DriveStrings(n) == UNION { [1..k -> DriveAlphabet] : k \in 0..n }

AddIterator(it) ==
    /\ result = NoResult
    /\ Cost(log) + Len(it) <= MaxLen
    /\ tok' = add_iterator(tok, it)
    /\ log' = Append(log, Call("add_iterator", it))
    /\ UNCHANGED <<cfg, result>>

DriveInit ==
    /\ cfg \in StockConfigs
    /\ tok = new(cfg.quote_pairs, cfg.escape_pairs, cfg.escape_leader)
    /\ log = <<>>
    /\ result = NoResult

DriveNext ==
    \/ Cost(log) <= MaxLen
         /\ \E it \in DriveStrings(MaxLen - Cost(log)) : AddIterator(it)
    \/ Cost(log) <= MaxLen
         /\ \E line \in DriveStrings(MaxLen - Cost(log)) : AddLine(line)
    \/ IntoStrings

DriveSpec == DriveInit /\ [][DriveNext]_vars

(* Bound: the number of escape calls made on one scheme. *)
MaxCalls == 2

(* An EscapeScheme session: cfg is the scheme as built, tok the scheme the *)
(* calls borrow (&self), result the Option the last call returned.         *)
EscapeInit ==
    /\ cfg \in Schemes
    /\ tok = cfg
    /\ log = <<>>
    /\ result = NoResult

Escape(chr) ==
    /\ Len(log) < MaxCalls
    /\ result' = escape(tok, chr)
    /\ log' = Append(log, Call("escape", <<chr>>))
    /\ UNCHANGED <<cfg, tok>>

EscapeNext == \E chr \in AllChars : Escape(chr)

EscapeSpec == EscapeInit /\ [][EscapeNext]_vars

(* ------------------------------------------------------------------ *)
(* History                                                             *)
(* ------------------------------------------------------------------ *)

(* The tokeniser a fresh one becomes under the add_* calls of l. *)
RECURSIVE Replay(_, _)
Replay(c, l) ==
    IF l = <<>> THEN new(c.quote_pairs, c.escape_pairs, c.escape_leader)
    ELSE LET before == Replay(c, Front(l))
             call   == Last(l)
         IN  IF call.op = "add_char" THEN add_char(before, call.arg[1])
             ELSE IF call.op = "add_line" THEN add_line(before, call.arg)
             ELSE IF call.op = "add_iterator" THEN add_iterator(before, call.arg)
             ELSE before

Finished == result # NoResult

(* The session was: one add_line on a fresh tokeniser, then into_strings. *)
OneLine ==
    /\ Len(log) = 2
    /\ log[1].op = "add_line"
    /\ log[2].op = "into_strings"

TheLine == log[1].arg

(* The last call was add_char. *)
Stepped == log # <<>> /\ Last(log).op = "add_char"

(* The state add_char was called on, and the character it was given. *)
Before == Replay(cfg, Front(log))

Chr == Last(log).arg[1]

HistoryOK == tok = Replay(cfg, log)

(* ------------------------------------------------------------------ *)
(* Properties                                                          *)
(* ------------------------------------------------------------------ *)

IsWhitespaceOnly(s) == \A i \in 1..Len(s) : is_whitespace(s[i])

(* No character of s is a quote opener or the escape leader of c. *)
IsPlain(c, s) ==
    \A i \in 1..Len(s) :
        /\ s[i] \notin DOMAIN c.quote_pairs
        /\ Some(s[i]) # c.escape_leader

(* v with the character c added to its last string. *)
AppendLast(v, c) == Front(v) \o << Last(v) \o <<c>> >>

(* v without its last string when that string is empty. *)
WithoutEmptyLast(v) == IF Last(v) = <<>> THEN Front(v) ELSE v

IsTokeniser(t) ==
    /\ t.vec \in Seq(Seq(AllChars))
    /\ t.in_word \in BOOLEAN
    /\ t.escaping \in BOOLEAN
    /\ t.quote = None
         \/ (Len(t.quote) = 1 /\ t.quote[1] \in AllChars \X QuoteMode)
    /\ t.quote_pairs = cfg.quote_pairs
    /\ t.escape_pairs = cfg.escape_pairs
    /\ t.escape_leader = cfg.escape_leader

(* C1: with the no-quote configuration, add_line(s) on a fresh tokeniser   *)
(* followed by into_strings returns Ok of the plain whitespace split of s, *)
(* for every s; never an error.                                            *)
C1_WhitespaceSplit ==
    (OneLine /\ cfg = whitespace_split_tokeniser)
        => result = Ok(words(TheLine))

(* A line with leading whitespace, a quote character and two words. *)
C1_Witness ==
    /\ OneLine
    /\ cfg = whitespace_split_tokeniser
    /\ TheLine # <<>>
    /\ is_whitespace(TheLine[1])
    /\ \E i \in 1..Len(TheLine) : TheLine[i] \in {"dq", "bs"}
    /\ result.kind = "Ok"
    /\ Len(result.words) = 2

(* C2: with any configuration, a line holding none of its quote openers    *)
(* and not its escape leader tokenises to Ok of its plain whitespace       *)
(* split.                                                                  *)
C2_PlainLineSplit ==
    (OneLine /\ IsPlain(cfg, TheLine)) => result = Ok(words(TheLine))

(* The shell-style configuration splits a plain line into two words. *)
C2_Witness ==
    /\ OneLine
    /\ cfg = shell_style_tokeniser
    /\ IsPlain(cfg, TheLine)
    /\ result.kind = "Ok"
    /\ Len(result.words) = 2
    /\ TheLine # trim(TheLine)

(* C3: into_strings on a state with a quotation open returns               *)
(* Err(UnmatchedQuote), whatever was fed before the opener.                *)
C3_UnmatchedQuote ==
    (Finished /\ is_some(tok.quote)) => result = Err("UnmatchedQuote")

(* The quote was opened after an earlier, completed word. *)
C3_Witness ==
    /\ cfg = shell_style_tokeniser
    /\ Finished
    /\ is_some(tok.quote)
    /\ Len(tok.vec) = 2
    /\ tok.vec[1] # <<>>
    /\ result = Err("UnmatchedQuote")

(* C4, as claimed, for the stock configurations: into_strings on a state   *)
(* with escaping = true returns Err(UnfinishedEscape), also when the       *)
(* leader was read inside an open ParseEscapes quotation.                  *)
C4_Original ==
    (cfg \in StockConfigs /\ Finished /\ tok.escaping)
        => result = Err("UnfinishedEscape")

(* C4, amended: into_strings on a state with escaping = true returns       *)
(* Err(UnfinishedEscape) when no quotation is open, and                    *)
(* Err(UnmatchedQuote) when the leader was read inside an open             *)
(* (ParseEscapes) quotation.                                               *)
C4_UnfinishedEscape ==
    (Finished /\ tok.escaping) =>
        /\ tok.quote = None => result = Err("UnfinishedEscape")
        /\ is_some(tok.quote) =>
               /\ tok.quote[1][2] = "ParseEscapes"
               /\ result = Err("UnmatchedQuote")

(* The leader ended the input inside a quoted word that has characters. *)
C4_Witness ==
    /\ cfg = shell_style_tokeniser
    /\ Finished
    /\ tok.escaping
    /\ is_some(tok.quote)
    /\ Last(tok.vec) # <<>>
    /\ result = Err("UnmatchedQuote")

(* C5: with any configuration, add_line of an empty or all-whitespace line *)
(* on a fresh tokeniser followed by into_strings returns Ok of the empty   *)
(* sequence.                                                               *)
C5_BlankLine ==
    (OneLine /\ IsWhitespaceOnly(TheLine)) => result = Ok(<<>>)

(* A blank, non-empty line under a configuration whose leader is a space. *)
C5_Witness ==
    /\ OneLine
    /\ TheLine # <<>>
    /\ IsWhitespaceOnly(TheLine)
    /\ cfg.escape_leader = Some("sp")
    /\ result = Ok(<<>>)

(* C6: Tokeniser::new returns one empty accumulator, in_word = false,      *)
(* quote = None, escaping = false and the supplied configuration;          *)
(* into_strings on it returns Ok of the empty sequence.                    *)
C6_New ==
    /\ log = <<>> =>
           /\ tok.vec = << <<>> >>
           /\ tok.in_word = FALSE
           /\ tok.quote = None
           /\ tok.escaping = FALSE
           /\ tok.quote_pairs = cfg.quote_pairs
           /\ tok.escape_pairs = cfg.escape_pairs
           /\ tok.escape_leader = cfg.escape_leader
    /\ (Len(log) = 1 /\ Finished) => result = Ok(<<>>)

(* into_strings was called on a fresh C-style tokeniser. *)
C6_Witness ==
    /\ cfg = c_style_tokeniser
    /\ Len(log) = 1
    /\ Finished
    /\ tok.vec = << <<>> >>
    /\ result = Ok(<<>>)

(* C7: into_strings returns Err(UnmatchedQuote) if in_word and a quote is  *)
(* open; otherwise Err(UnfinishedEscape) if escaping; otherwise Ok.  An    *)
(* open quote with a pending escape gives UnmatchedQuote, and there is no  *)
(* other error value.                                                      *)
C7_Classification ==
    Finished =>
        /\ IF tok.in_word /\ is_some(tok.quote)
           THEN result = Err("UnmatchedQuote")
           ELSE IF tok.escaping
                THEN result = Err("UnfinishedEscape")
                ELSE result.kind = "Ok"
        /\ result.kind \in {"Ok", "Err"}
        /\ result.kind = "Err" => result.error \in Error

(* An open quote and a pending escape at once, after a completed word. *)
C7_Witness ==
    /\ cfg = c_style_tokeniser
    /\ Finished
    /\ tok.escaping
    /\ is_some(tok.quote)
    /\ Len(tok.vec) = 2
    /\ result = Err("UnmatchedQuote")

(* C8, as claimed, for the stock configurations: an Ok result is the word  *)
(* vector without its last string iff that string is empty, the earlier    *)
(* words unchanged; so an Ok result never ends with an empty string, and   *)
(* no words give the empty sequence.                                       *)
C8_Original ==
    (cfg \in StockConfigs /\ result.kind = "Ok") =>
        /\ result.words = WithoutEmptyLast(tok.vec)
        /\ result.words = <<>> \/ Last(result.words) # <<>>
        /\ tok.vec = << <<>> >> => result.words = <<>>

(* C8, amended: an Ok result is the word vector without its last string    *)
(* iff that string is empty, the earlier words unchanged; so no words give *)
(* the empty sequence.  (Only the accumulator is dropped: an Ok result     *)
(* ends with an empty string when the word before it was empty.)           *)
C8_DropEmptyLast ==
    result.kind = "Ok" =>
        /\ result.words = WithoutEmptyLast(tok.vec)
        /\ tok.vec = << <<>> >> => result.words = <<>>

(* The accumulator was dropped and the word before it is empty. *)
C8_Witness ==
    /\ cfg = shell_style_tokeniser
    /\ result.kind = "Ok"
    /\ Len(tok.vec) = 2
    /\ result.words = << <<>> >>

(* C9: add_char has a successor state for every state and character, and   *)
(* no error arises while stepping: errors come from into_strings alone.    *)
C9_AddCharTotal ==
    /\ IsTokeniser(tok)
    /\ \A chr \in Alphabet : IsTokeniser(add_char(tok, chr))
    /\ Stepped => result = NoResult
    /\ result.kind = "Err" => Last(log).op = "into_strings"

(* Stepping went on into a state that into_strings would reject. *)
C9_Witness ==
    /\ cfg = shell_style_tokeniser
    /\ Stepped
    /\ tok.escaping
    /\ is_some(tok.quote)
    /\ Len(log) >= 3
    /\ result = NoResult

(* C10: with escaping = true and a non-empty table that lacks c,           *)
(* add_char(c) appends c to the accumulator, sets in_word, clears escaping *)
(* and leaves quote unchanged, with no error, whatever c is.               *)
C10_UnknownEscape ==
    ( /\ Stepped
      /\ Before.escaping
      /\ ~is_empty(Before.escape_pairs)
      /\ ~contains_key(Before.escape_pairs, Chr) )
    =>
        /\ tok.vec = AppendLast(Before.vec, Chr)
        /\ tok.in_word
        /\ ~tok.escaping
        /\ tok.quote = Before.quote
        /\ result = NoResult

(* The unknown escaped character is the closer of the open quotation. *)
C10_Witness ==
    /\ cfg = unpack
    /\ Stepped
    /\ Before.escaping
    /\ ~is_empty(Before.escape_pairs)
    /\ ~contains_key(Before.escape_pairs, Chr)
    /\ is_some(Before.quote)
    /\ Chr = Before.quote[1][1]
    /\ tok.quote = Before.quote

(* C11: escape is a pure function of scheme and character: LiteralEscape  *)
(* returns Some(c) for every c; MapEscape(m) returns Some(m[c]) when c is  *)
(* a key of m and None otherwise; the scheme is left as it was.            *)
C11_Escape ==
    (log # <<>> /\ Last(log).op = "escape") =>
        /\ tok = cfg
        /\ cfg.tag = "LiteralEscape" => result = <<Chr>>
        /\ cfg.tag = "MapEscape" =>
               IF Chr \in DOMAIN cfg.map
               THEN result = <<cfg.map[Chr]>>
               ELSE result = <<>>

(* The second call on c_escapes() maps r to a carriage return. *)
C11_Witness ==
    /\ Len(log) = 2
    /\ Last(log).op = "escape"
    /\ cfg = c_escapes
    /\ Chr = "r"
    /\ result = <<"cr">>

(* C12: with escaping = true and a scheme that maps c to x (x = c for the   *)
(* empty, shell-style table; x = table[c] for a table that has c),         *)
(* add_char(c) appends exactly x to the accumulator, sets in_word, clears  *)
(* escaping and leaves quote and the completed words unchanged.            *)
C12_KnownEscape ==
    ( /\ Stepped
      /\ Before.escaping
      /\ is_empty(Before.escape_pairs) \/ contains_key(Before.escape_pairs, Chr) )
    =>
        LET x == IF is_empty(Before.escape_pairs) THEN Chr
                 ELSE Before.escape_pairs[Chr]
        IN  /\ tok.vec = AppendLast(Before.vec, x)
            /\ tok.in_word
            /\ ~tok.escaping
            /\ tok.quote = Before.quote

(* Shell style: an escaped double quote outside quotes opens no quotation. *)
C12_Witness ==
    /\ cfg = shell_style_tokeniser
    /\ Stepped
    /\ Before.escaping
    /\ Before.quote = None
    /\ Chr = "dq"
    /\ tok.quote = None
    /\ Last(tok.vec) = Last(Before.vec) \o <<"dq">>

(* C13: inside an IgnoreEscapes quotation add_char of any character but    *)
(* the closing one appends the character itself; the leader does not set   *)
(* escaping, whitespace does not end the word, and the quotation stays.    *)
C13_IgnoreEscapes ==
    ( /\ Stepped
      /\ is_some(Before.quote)
      /\ Before.quote[1][2] = "IgnoreEscapes"
      /\ Chr # Before.quote[1][1] )
    =>
        /\ tok.vec = AppendLast(Before.vec, Chr)
        /\ tok.in_word
        /\ ~tok.escaping
        /\ tok.quote = Before.quote

(* Shell style: a backslash inside single quotes. *)
C13_Witness ==
    /\ cfg = shell_style_tokeniser
    /\ Stepped
    /\ is_some(Before.quote)
    /\ Before.quote[1][2] = "IgnoreEscapes"
    /\ Chr = "bs"
    /\ Last(tok.vec) = Last(Before.vec) \o <<"bs">>
    /\ ~tok.escaping

(* C14, as claimed: with a quote open and escaping = false, add_char of a  *)
(* whitespace character appends it to the accumulator and leaves the       *)
(* number of words, quote and in_word = true unchanged.                    *)
C14_Original ==
    ( /\ Stepped
      /\ is_some(Before.quote)
      /\ ~Before.escaping
      /\ is_whitespace(Chr) )
    =>
        /\ tok.vec = AppendLast(Before.vec, Chr)
        /\ Len(tok.vec) = Len(Before.vec)
        /\ tok.quote = Before.quote
        /\ tok.in_word

(* C14, amended: with a quote open and escaping = false, add_char of a     *)
(* whitespace character never ends the word (the number of words and       *)
(* in_word = true are unchanged); it appends the character and leaves      *)
(* quote unchanged unless the character is the active closer or, in a      *)
(* ParseEscapes quotation, the escape leader.                              *)
C14_QuotedWhitespace ==
    ( /\ Stepped
      /\ is_some(Before.quote)
      /\ ~Before.escaping
      /\ is_whitespace(Chr) )
    =>
        /\ Len(tok.vec) = Len(Before.vec)
        /\ Front(tok.vec) = Front(Before.vec)
        /\ tok.in_word
        /\ ( /\ Chr # Before.quote[1][1]
             /\ ~( /\ Before.quote[1][2] = "ParseEscapes"
                   /\ Before.escape_leader = Some(Chr) ) )
           =>
               /\ tok.vec = AppendLast(Before.vec, Chr)
               /\ tok.quote = Before.quote

(* C style: a newline inside double quotes, after a completed word. *)
C14_Witness ==
    /\ cfg = c_style_tokeniser
    /\ Stepped
    /\ is_some(Before.quote)
    /\ ~Before.escaping
    /\ Chr = "nl"
    /\ Len(Before.vec) = 2
    /\ tok.vec = <<Before.vec[1], Before.vec[2] \o <<"nl">> >>
    /\ tok.quote = Before.quote

(* What backslash followed by c stands for in C. *)
CSubstitute(c) ==
    CASE c = "n" -> "nl"
      [] c = "r" -> "cr"
      [] c = "t" -> "tab"
      [] OTHER   -> c

(* C15: shell style: backslash followed by c yields c itself (backslash-n  *)
(* is the letter n).  C style: backslash followed by n, r, t, double       *)
(* quote, single quote, backslash yields newline, carriage return, tab,    *)
(* double quote, single quote, backslash; followed by any other character  *)
(* it yields that character.                                               *)
C15_StockEscapes ==
    (Stepped /\ Before.escaping) =>
        /\ tok.quote = Before.quote
        /\ ~tok.escaping
        /\ cfg = shell_style_tokeniser =>
               tok.vec = AppendLast(Before.vec, Chr)
        /\ cfg = c_style_tokeniser =>
               tok.vec = AppendLast(Before.vec, CSubstitute(Chr))

(* C style: backslash-n inside double quotes yields a newline. *)
C15_Witness ==
    /\ cfg = c_style_tokeniser
    /\ Stepped
    /\ Before.escaping
    /\ is_some(Before.quote)
    /\ Chr = "n"
    /\ Last(tok.vec) = Last(Before.vec) \o <<"nl">>

(* The Result of stepping add_char over every character of s, untrimmed,   *)
(* on a fresh tokeniser of configuration c, and finalising.                *)
Untrimmed(c, s) ==
    into_strings(add_iterator(new(c.quote_pairs, c.escape_pairs, c.escape_leader), s))

(* C16, for the stock configurations: add_line of a line on a fresh        *)
(* tokeniser, then into_strings, gives the same Result as add_char over    *)
(* every character of the untrimmed line, then into_strings.               *)
C16_TrimParity ==
    (cfg \in StockConfigs /\ OneLine) => result = Untrimmed(cfg, TheLine)

(* The words of w joined by single spaces. *)
RECURSIVE Join(_)
Join(w) ==
    IF w = <<>> THEN <<>>
    ELSE IF Len(w) = 1 THEN w[1]
    ELSE w[1] \o <<"sp">> \o Join(Tail(w))

(* The Result of tokenising the line s with a fresh tokeniser of           *)
(* configuration c.                                                        *)
Tokenised(c, s) ==
    into_strings(add_line(new(c.quote_pairs, c.escape_pairs, c.escape_leader), s))

(* C17, as claimed: for every configuration and every line without its     *)
(* openers and leader, if the line tokenises to Ok(w), the words of w      *)
(* joined by single spaces tokenise to Ok(w) again.                        *)
C17_Original ==
    (OneLine /\ IsPlain(cfg, TheLine) /\ result.kind = "Ok")
        => Tokenised(cfg, Join(result.words)) = result

(* C17, amended: the same, for every configuration in which the space is   *)
(* neither a quote opener nor the escape leader.                           *)
C17_Retokenise ==
    ( /\ OneLine
      /\ IsPlain(cfg, TheLine)
      /\ result.kind = "Ok"
      /\ IsPlain(cfg, <<"sp">>) )
    => Tokenised(cfg, Join(result.words)) = result

(* Shell style: two words that the line separates by more than one space. *)
C17_Witness ==
    /\ cfg = shell_style_tokeniser
    /\ OneLine
    /\ IsPlain(cfg, TheLine)
    /\ result.kind = "Ok"
    /\ Len(result.words) = 2
    /\ Join(result.words) # TheLine
    /\ Tokenised(cfg, Join(result.words)) = result

(* The character sequences of at most two characters. *)
Continuations == UNION { [1..k -> EscapeAlphabet] : k \in 0..2 }

(* v begins with u. *)
IsPrefix(u, v) == Len(u) <= Len(v) /\ SubSeq(v, 1, Len(u)) = u

(* Finishing t after the continuation s returns Ok, and the Ok keeps the   *)
(* completed words of t and begins the next word with t's current word.    *)
Resumes(t, s) ==
    LET r == into_strings(add_iterator(t, s))
        n == Len(t.vec)
    IN  /\ r.kind = "Ok"
        /\ IsPrefix(Front(t.vec), r.words)
        /\ Last(t.vec) # <<>> =>
               (Len(r.words) >= n /\ IsPrefix(Last(t.vec), r.words[n]))

(* C18: for the shell-style and C-style configurations, every reachable    *)
(* state has a continuation of at most two characters after which          *)
(* into_strings returns Ok with the words accumulated so far preserved.    *)
C18_Continuation ==
    \E s \in Continuations : Resumes(tok, s)

(* C style: a completed word, then an open quotation with a pending        *)
(* escape; no continuation shorter than two characters finishes it.        *)
C18_Witness ==
    /\ cfg = c_style_tokeniser
    /\ result = NoResult
    /\ tok.escaping
    /\ is_some(tok.quote)
    /\ Len(tok.vec) = 2
    /\ tok.vec[1] # <<>>
    /\ \A s \in Continuations : Len(s) < 2 => ~Resumes(tok, s)
    /\ \E s \in Continuations : Resumes(tok, s)

(* C20, as claimed: with escaping = false and no quote open, add_char of a *)
(* whitespace character (a) leaves the whole state unchanged if in_word is *)
(* false, and (b) if in_word is true pushes one empty accumulator, clears  *)
(* in_word and leaves every word and every other field unchanged.          *)
C20_Original ==
    ( /\ Stepped
      /\ ~Before.escaping
      /\ Before.quote = None
      /\ is_whitespace(Chr) )
    => IF ~Before.in_word
       THEN tok = Before
       ELSE tok = [Before EXCEPT !.vec = Append(@, <<>>), !.in_word = FALSE]

(* C20, amended: the same, for a whitespace character that is neither the  *)
(* escape leader nor a quote opener of the configuration.                  *)
C20_BoundaryWhitespace ==
    ( /\ Stepped
      /\ ~Before.escaping
      /\ Before.quote = None
      /\ is_whitespace(Chr)
      /\ IsPlain(cfg, <<Chr>>) )
    => IF ~Before.in_word
       THEN tok = Before
       ELSE tok = [Before EXCEPT !.vec = Append(@, <<>>), !.in_word = FALSE]

(* Shell style: a newline after a space after a word (case a) whose word   *)
(* was ended by that space (case b).                                       *)
C20_Witness ==
    /\ cfg = shell_style_tokeniser
    /\ Stepped
    /\ Len(log) = 3
    /\ log[2].arg = <<"sp">>
    /\ Chr = "nl"
    /\ ~Before.in_word
    /\ ~Before.escaping
    /\ Before.quote = None
    /\ Before.vec = <<<<"a">>, <<>>>>
    /\ tok = Before

(* C21: with escaping = false and no quote open, add_char of a key c of    *)
(* the quote-pair table that is not the escape leader sets quote to the    *)
(* table's (closer, mode) for c and in_word to true, and leaves the word   *)
(* vector and every other field unchanged: the opener is not appended and  *)
(* no word is started or ended.                                            *)
C21_QuoteOpening ==
    ( /\ Stepped
      /\ ~Before.escaping
      /\ Before.quote = None
      /\ Chr \in DOMAIN cfg.quote_pairs
      /\ cfg.escape_leader # Some(Chr) )
    => tok = [Before EXCEPT !.quote = Some(cfg.quote_pairs[Chr]),
                            !.in_word = TRUE]

(* Shell style: a double quote, which is also a closing character, opens a *)
(* quotation in the middle of the word a.                                  *)
C21_Witness ==
    /\ cfg = shell_style_tokeniser
    /\ Stepped
    /\ Before.quote = None
    /\ Before.in_word
    /\ Before.vec = << <<"a">> >>
    /\ Chr = "dq"
    /\ tok.quote = Some(<<"dq", "ParseEscapes">>)
    /\ tok.vec = << <<"a">> >>

(* C22: with escaping = false and a quote with closer cc open, add_char of *)
(* cc, unless it is taken as the escape leader (cc is the leader and the   *)
(* mode is ParseEscapes), sets quote to None and in_word to true and       *)
(* leaves the word vector and every other field unchanged: the closer is   *)
(* not appended and the word is not ended.                                 *)
C22_QuoteClosing ==
    ( /\ Stepped
      /\ ~Before.escaping
      /\ is_some(Before.quote)
      /\ Chr = Before.quote[1][1]
      /\ ~(cfg.escape_leader = Some(Chr) /\ Before.quote[1][2] = "ParseEscapes") )
    => tok = [Before EXCEPT !.quote = None, !.in_word = TRUE]

(* Shell style: the double quote closing the quoted a; the word goes on.   *)
C22_Witness ==
    /\ cfg = shell_style_tokeniser
    /\ Stepped
    /\ Before.quote = Some(<<"dq", "ParseEscapes">>)
    /\ Before.vec = << <<"a">> >>
    /\ Chr = "dq"
    /\ tok.quote = None
    /\ tok.in_word
    /\ tok.vec = << <<"a">> >>
    /\ add_char(tok, "n").vec = << <<"a", "n">> >>

(* The open quotation of Before is still open, or Chr was its closer and   *)
(* no quotation is open.                                                   *)
QuoteHeld ==
    \/ tok.quote = Before.quote
    \/ tok.quote = None /\ Chr = Before.quote[1][1]

(* C23, as claimed: while a quotation is open, add_char of a quote opener  *)
(* that is not the active closer leaves quote unchanged and appends the    *)
(* opener itself to the accumulator; and no step changes the closer or the *)
(* mode of the open quotation except by consuming the closer.              *)
C23_Original ==
    (Stepped /\ is_some(Before.quote)) =>
        /\ QuoteHeld
        /\ (Chr \in DOMAIN cfg.quote_pairs /\ Chr # Before.quote[1][1]) =>
              /\ tok.quote = Before.quote
              /\ tok.vec = AppendLast(Before.vec, Chr)

(* C23, amended: the same, where the opener is appended itself unless it   *)
(* is taken as the escape leader (escaping = false, mode ParseEscapes, the *)
(* opener is the leader), which appends nothing, or an escape is pending   *)
(* and the opener is a key of the escape table, which appends the table's  *)
(* character for it.                                                       *)
C23_NoNesting ==
    (Stepped /\ is_some(Before.quote)) =>
        /\ QuoteHeld
        /\ (Chr \in DOMAIN cfg.quote_pairs /\ Chr # Before.quote[1][1]) =>
              /\ tok.quote = Before.quote
              /\ tok.vec =
                    IF /\ ~Before.escaping
                       /\ Before.quote[1][2] = "ParseEscapes"
                       /\ cfg.escape_leader = Some(Chr)
                    THEN Before.vec
                    ELSE IF Before.escaping /\ Chr \in DOMAIN cfg.escape_pairs
                    THEN AppendLast(Before.vec, cfg.escape_pairs[Chr])
                    ELSE AppendLast(Before.vec, Chr)

(* Shell style: a double quote inside a single-quoted word. *)
C23_Witness ==
    /\ cfg = shell_style_tokeniser
    /\ Stepped
    /\ Before.quote = Some(<<"sq", "IgnoreEscapes">>)
    /\ Chr = "dq"
    /\ tok.quote = Before.quote
    /\ tok.vec = AppendLast(Before.vec, "dq")

(* C24: with escaping = false, add_char of the escape leader, when no      *)
(* quote is open or the open quote's mode is ParseEscapes, sets escaping   *)
(* and in_word to true and leaves the word vector, the quote and every     *)
(* other field unchanged, whether or not the leader is also a quote        *)
(* opener, the active closer or whitespace.                                *)
C24_EscapeLeader ==
    ( /\ Stepped
      /\ ~Before.escaping
      /\ cfg.escape_leader = Some(Chr)
      /\ Before.quote = None \/ Before.quote[1][2] = "ParseEscapes" )
    => tok = [Before EXCEPT !.escaping = TRUE, !.in_word = TRUE]

(* A leader that is also a quote opener starts an escape between words and *)
(* opens no quotation.                                                     *)
C24_Witness ==
    /\ cfg = Config("dq" :> <<"dq", "ParseEscapes">>, EmptyMap, Some("dq"))
    /\ Stepped
    /\ ~Before.escaping
    /\ ~Before.in_word
    /\ Before.quote = None
    /\ Chr = "dq"
    /\ tok.escaping
    /\ tok.in_word
    /\ tok.quote = None
    /\ tok.vec = Before.vec

(* C25: from a state with escaping = true, add_char of any character gives *)
(* a state with escaping = false whose accumulator is one character        *)
(* longer, beginning with the old accumulator, and whose quote and         *)
(* completed words are unchanged; so escaping is never true in two         *)
(* consecutive states.                                                     *)
C25_EscapeOneCharacter ==
    (Stepped /\ Before.escaping) =>
        /\ ~tok.escaping
        /\ Len(tok.vec) = Len(Before.vec)
        /\ Front(tok.vec) = Front(Before.vec)
        /\ Len(Last(tok.vec)) = Len(Last(Before.vec)) + 1
        /\ IsPrefix(Last(Before.vec), Last(tok.vec))
        /\ tok.quote = Before.quote

(* C style: the leader itself, fed while an escape is pending inside a     *)
(* quotation, is appended and starts no second escape.                     *)
C25_Witness ==
    /\ cfg = c_style_tokeniser
    /\ Stepped
    /\ Before.escaping
    /\ is_some(Before.quote)
    /\ Chr = "bs"
    /\ ~tok.escaping
    /\ Last(tok.vec) = Last(Before.vec) \o <<"bs">>
    /\ tok.quote = Before.quote

(* C26: in every state reachable from new by add_char calls the word      *)
(* vector is non-empty: its last element is the accumulator, to which a    *)
(* character that add_char emits is appended.                              *)
C26_Accumulator ==
    /\ Len(tok.vec) >= 1
    /\ \A chr \in Alphabet :
          LET next == add_char(tok, chr)
          IN  /\ Len(next.vec) >= 1
              /\ next.vec # tok.vec =>
                    \/ Last(next.vec) = <<>>
                    \/ Front(Last(next.vec)) = Last(tok.vec)

(* Two words were ended and the accumulator after them is empty. *)
C26_Witness ==
    /\ cfg = whitespace_split_tokeniser
    /\ Stepped
    /\ Len(tok.vec) = 3
    /\ Last(tok.vec) = <<>>
    /\ ~tok.in_word

(* C27: in every reachable state, escaping = true does not coincide with   *)
(* an open IgnoreEscapes quotation.                                        *)
C27_NoEscapeInIgnoreEscapes ==
    tok.escaping => (tok.quote = None \/ tok.quote[1][2] = "ParseEscapes")

(* Shell style: inside single quotes after a backslash, no escape pending; *)
(* and the closing quote then a backslash starts one.                      *)
C27_Witness ==
    /\ cfg = shell_style_tokeniser
    /\ Len(log) = 2
    /\ log[2] = Call("add_char", <<"bs">>)
    /\ tok.quote = Some(<<"sq", "IgnoreEscapes">>)
    /\ ~tok.escaping
    /\ add_char(add_char(tok, "sq"), "bs").escaping

(* C28: in every reachable state an open quotation implies in_word and a   *)
(* pending escape implies in_word; so whitespace inside a quotation never  *)
(* meets the rule for whitespace outside a word.                           *)
C28_InWord ==
    /\ is_some(tok.quote) => tok.in_word
    /\ tok.escaping => tok.in_word
    /\ is_some(tok.quote) =>
          \A chr \in Alphabet : ~whitespace_not_in_word(tok, chr)

(* Shell style: a space fed first thing inside a quotation is kept. *)
C28_Witness ==
    /\ cfg = shell_style_tokeniser
    /\ Stepped
    /\ Len(log) = 2
    /\ is_some(Before.quote)
    /\ Before.vec = << <<>> >>
    /\ Chr = "sp"
    /\ tok.vec = << <<"sp">> >>
    /\ tok.in_word

(* C29: every add_char leaves every string of the word vector but the     *)
(* last unchanged and changes the length of the vector by 0 or by 1; the   *)
(* accumulator is left unchanged or gets exactly one character appended,   *)
(* and when the vector grows the string added is the new, empty            *)
(* accumulator after the unchanged old one.                                *)
C29_AppendOnly ==
    Stepped =>
        LET n == Len(Before.vec)
        IN  /\ Len(tok.vec) \in {n, n + 1}
            /\ SubSeq(tok.vec, 1, n - 1) = Front(Before.vec)
            /\ Len(tok.vec) = n =>
                  \/ tok.vec[n] = Before.vec[n]
                  \/ /\ Len(tok.vec[n]) = Len(Before.vec[n]) + 1
                     /\ Front(tok.vec[n]) = Before.vec[n]
            /\ Len(tok.vec) = n + 1 =>
                  /\ tok.vec[n] = Before.vec[n]
                  /\ tok.vec[n + 1] = <<>>

(* Shell style: a character appended to the second word leaves the first  *)
(* word and the start of the second as they were.                          *)
C29_Witness ==
    /\ cfg = shell_style_tokeniser
    /\ Stepped
    /\ Before.vec = << <<"a">>, <<"n">> >>
    /\ Chr = "a"
    /\ tok.vec = << <<"a">>, <<"n", "a">> >>

(* The number of add_char calls of l, made in turn on a fresh tokeniser of *)
(* configuration c, that changed in_word from false to true.               *)
RECURSIVE Starts(_, _)
Starts(c, l) ==
    IF l = <<>> THEN 0
    ELSE Starts(c, Front(l))
         + (IF ~Replay(c, Front(l)).in_word /\ Replay(c, l).in_word
            THEN 1 ELSE 0)

(* C30, for the stock configurations: when into_strings returns Ok, the    *)
(* number of words returned is the number of times in_word changed from    *)
(* false to true during stepping, so that a started word that received no  *)
(* character is returned as an empty string, also as the last token.       *)
C30_StartedWords ==
    (cfg \in StockConfigs /\ Finished /\ result.kind = "Ok")
        => Len(result.words) = Starts(cfg, log)

(* The characters the calls of l hand to the state machine, in order: an  *)
(* add_line call hands over its line trimmed, and nothing stands between   *)
(* the characters of one call and those of the next.                       *)
RECURSIVE Fed(_)
Fed(l) ==
    IF l = <<>> THEN <<>>
    ELSE Fed(Front(l))
         \o (IF Last(l).op = "add_line" THEN trim(Last(l).arg)
             ELSE IF Last(l).op = "into_strings" THEN <<>>
             ELSE Last(l).arg)

(* add_char applied to each character of s in order, the last one last. *)
RECURSIVE StepEach(_, _)
StepEach(self, s) ==
    IF s = <<>> THEN self
    ELSE add_char(StepEach(self, Front(s)), Last(s))

(* C31: the state after any sequence of add_iterator and add_line calls is *)
(* the state add_char reaches, one character at a time, over the           *)
(* iterators and the trimmed lines put end to end: a call over a           *)
(* concatenation equals the calls over its parts, and quote, pending       *)
(* escape and word in progress carry over from one line to the next with   *)
(* no word boundary between them.                                          *)
C31_LineFold ==
    tok = StepEach(new(cfg.quote_pairs, cfg.escape_pairs, cfg.escape_leader),
                   Fed(log))

(* Shell style: the first line ends with a space, which is trimmed, and    *)
(* leaves the word a in progress; the second line goes on with that word.  *)
C31_Witness ==
    /\ cfg = shell_style_tokeniser
    /\ Len(log) = 2
    /\ log[1] = Call("add_line", <<"a", "sp">>)
    /\ log[2] = Call("add_line", <<"a">>)
    /\ Replay(cfg, <<log[1]>>).in_word
    /\ tok.in_word
    /\ tok.vec = << <<"a", "a">> >>

(* C32: where the escape leader is the closing character of an            *)
(* IgnoreEscapes quote pair, add_char of that character with escaping =    *)
(* false while that quotation is open closes the quotation: quote becomes  *)
(* None, nothing is appended and escaping stays false.                     *)
C32_LeaderCloses ==
    ( /\ Stepped
      /\ ~Before.escaping
      /\ is_some(Before.quote)
      /\ Before.quote[1][2] = "IgnoreEscapes"
      /\ cfg.escape_leader = Some(Before.quote[1][1])
      /\ Chr = Before.quote[1][1] )
    =>
        /\ tok.quote = None
        /\ tok.vec = Before.vec
        /\ ~tok.escaping
        /\ tok.in_word

(* A backslash, the leader, closes the quotation that a single quote       *)
(* opened around the word a.                                               *)
C32_Witness ==
    /\ cfg = Config("sq" :> <<"bs", "IgnoreEscapes">>, "n" :> "nl", Some("bs"))
    /\ Stepped
    /\ Before.quote = Some(<<"bs", "IgnoreEscapes">>)
    /\ Before.vec = << <<"a">> >>
    /\ Chr = "bs"
    /\ tok.quote = None
    /\ ~tok.escaping
    /\ tok.vec = << <<"a">> >>

====
